---- MODULE Spec2Model ----
(***************************************************************************)
(* Model of the ep2-sandbox front end:                                     *)
(*   - AgentService (services/agent.ts): the singleton API client with its *)
(*     single stored session id;                                           *)
(*   - the chat controllers (DailySpendingPage, BigPurchasesPage,          *)
(*     TravelPage, Chatbot) and their handleSendMessage;                   *)
(*   - the Firebase auth state read by the client and by the Chatbot;      *)
(*   - TripVisualization and its polling timer (second specification);     *)
(*   - AuthContext signup and the user document (SignupSpec);              *)
(*   - the load effects of TransactionsPage and Layout (LoadSpec).         *)
(* Strings that are inspected or transformed by the code are sequences of  *)
(* one-character strings; opaque values (session ids, users) are tagged    *)
(* tuples or plain strings.                                                *)
(***************************************************************************)
EXTENDS Integers, Sequences, FiniteSets, TLC

VARIABLES
  authUser,     \* firebase auth.currentUser: NoUser or a uid
  currentUser,  \* AuthContext currentUser (React state fed by the listener)
  sessionId,    \* AgentService.sessionId: Null or an id
  calls,        \* set of sendMessage invocations that have not settled yet
  sendCount,    \* number of accepted sends so far (also numbers the calls)
  messages,     \* per controller: the message log (useState messages)
  isLoading,    \* per controller: the busy flag (useState isLoading)
  contextId,    \* per controller: the controller's own session id
  lastSend      \* history: what the most recent step of a send did

VARIABLES
  mounted,      \* TripVisualization is mounted
  prompt,       \* useState prompt
  referenceImage,         \* useState referenceImage: NoFile or a file
  referenceImagePreview,  \* useState referenceImagePreview: Null or an object URL
  visual,       \* useState visual
  loading,      \* useState loading
  videoReady,   \* useState videoReady
  intervalRef,  \* intervalRef.current: NoTimer or the id setInterval returned
  timers,       \* the interval timers the browser still has registered
  liveUrls,     \* object URLs created and not yet revoked
  urlSeq,       \* number of createObjectURL calls so far
  creations,    \* creation requests (POST .../visualize) in flight
  genSeq,       \* number of creation requests issued so far
  polls,        \* number of poll fetches (GET .../visuals) in flight
  toastLog,     \* history: titles of the toast() calls made by the component
  pollingAtUnmount,  \* history: a timer was registered when the component unmounted
  vizEvent      \* history: what the most recent step did

VARIABLES
  clearedId     \* history: the id clearSession removed, until the next request
                \* without an explicit id is issued; Null otherwise

VARIABLES
  responseText,   \* the reply text handed to formatResponseText
  formattedText   \* Message.formattedText: NotFormatted or the formatted reply

VARIABLES
  signupPc,     \* where the signup call stands
  createPc,     \* per caller: where its createUserDocument call stands
  signupName,   \* the displayName argument of signup
  profileName,  \* user.displayName of the auth user
  userDoc,      \* the document users/{uid} in Firestore
  writes        \* setDoc writes sent and not yet settled, oldest first

VARIABLES
  userId,       \* the userId search parameter: NoParam or an id
  loads,        \* loadData / loadUser runs whose fetches have not settled
  loadSeq,      \* number of times the [userId] effects have run
  pageUser,     \* TransactionsPage useState user
  transactions, \* TransactionsPage useState transactions
  pageLoading,  \* TransactionsPage useState loading
  pageError,    \* TransactionsPage useState error
  layoutUser,   \* Layout useState user
  loadRejected  \* history: some fetch of a load was rejected

vizVars == <<mounted, prompt, referenceImage, referenceImagePreview, visual,
             loading, videoReady, intervalRef, timers, liveUrls, urlSeq,
             creations, genSeq, polls, toastLog, pollingAtUnmount, vizEvent>>

chatVars == <<authUser, currentUser, sessionId, calls, sendCount, messages,
              isLoading, contextId, lastSend>>

textVars == <<responseText, formattedText>>

signupVars == <<signupPc, createPc, signupName, profileName, userDoc, writes>>

loadVars == <<userId, loads, loadSeq, pageUser, transactions, pageLoading,
              pageError, layoutUser, loadRejected>>

vars == <<chatVars, vizVars, textVars, clearedId, signupVars, loadVars>>

\* what the chat side, the visualization and the formatter leave alone
notChat == <<vizVars, textVars, clearedId, signupVars, loadVars>>
notViz == <<chatVars, textVars, clearedId, signupVars, loadVars>>
notText == <<chatVars, vizVars, clearedId, signupVars, loadVars>>
notSession == <<vizVars, textVars, signupVars, loadVars>>

\* what signup and the auth listener, and the page loads, leave alone
notSignup == <<sessionId, calls, sendCount, messages, isLoading, contextId,
               lastSend, vizVars, textVars, clearedId, loadVars>>
notLoad == <<chatVars, vizVars, textVars, clearedId, signupVars>>

----------------------------------------------------------------------------
(* Bounds *)

\* total number of accepted sends explored in one behaviour
MaxSends == 3

\* number of sendMessage invocations that may be pending at once
MaxPending == 2

\* number of creation requests (Generate/Regenerate) explored in one behaviour
MaxGenerations == 2

\* number of poll fetches that may be in flight at once
MaxPollsInFlight == 2

\* number of reference images selected in one behaviour
MaxImages == 2

\* length of the reply texts given to formatResponseText
MaxText == 7

\* number of times the userId search parameter changes in one behaviour
MaxNavigations == 2

----------------------------------------------------------------------------
(* Values *)

Null == <<>>
NoUser == "nouser"
Users == {"u1"}

NoToken == <<>>

\* the id generateSessionId returns in the n-th send, made by controller c
Gen(c, n) == <<"gen", c, n>>

\* a session id the chat server newly assigns when answering that send
Srv(c, n) == <<"srv", c, n>>

\* Controllers that own a handleSendMessage
Controllers == {"daily", "big", "travel", "chatbot"}

AgentType ==
  [DAILY_SPENDING |-> "daily-spending", BIG_PURCHASES |-> "big-purchases",
   TRAVEL |-> "travel", GENERAL |-> "general"]

\* which AgentService entry point each controller calls
AgentTypeOf(c) ==
  CASE c = "daily"   -> AgentType.DAILY_SPENDING
    [] c = "big"     -> AgentType.BIG_PURCHASES
    [] c = "travel"  -> AgentType.TRAVEL
    [] c = "chatbot" -> AgentType.GENERAL

----------------------------------------------------------------------------
(* Text *)

\* candidate contents of the input box: empty, blank, and a real message
Inputs == { <<>>, <<" ">>, <<"h", "i">> }

RECURSIVE TrimStart(_)
TrimStart(t) ==
  IF t # <<>> /\ Head(t) = " " THEN TrimStart(Tail(t)) ELSE t

RECURSIVE TrimEnd(_)
TrimEnd(t) ==
  IF t # <<>> /\ t[Len(t)] = " " THEN TrimEnd(SubSeq(t, 1, Len(t) - 1)) ELSE t

\* String.prototype.trim
Trim(t) == TrimEnd(TrimStart(t))

\* (variant) no agent kind gets a hint
Hint_None(agentType) == <<>>

\* the hint sentence sendMessage puts in front of the message (one token)
Hint(agentType) ==
  CASE agentType = AgentType.DAILY_SPENDING -> <<"I need help with daily spending. ">>
    [] agentType = AgentType.BIG_PURCHASES  -> <<"I need help with a big purchase. ">>
    [] agentType = AgentType.TRAVEL         -> <<"I need help with travel planning. ">>
    [] OTHER                                -> <<>>

\* formattedMessage of sendMessage
FormatMessage(agentType, message) == Hint(agentType) \o message

\* AgentService.extractResponseText
ExtractResponseText(response) ==
  IF response.response # <<>> THEN response.response
  ELSE <<"No response from agent">>

\* the text of the agent bubble a controller shows when its send throws
ErrorText(c) ==
  CASE c = "travel" ->
         <<"Sorry, I encountered an error. Please try again. Make sure you are logged in.">>
    [] c = "chatbot" ->
         <<"Sorry, I encountered an error while processing your request. Please try again.">>
    [] OTHER -> <<"Sorry, I encountered an error. Please try again.">>

\* Chatbot.sendMessageToAPI when the React currentUser is absent
PleaseLogIn == <<"Please log in to use the chat assistant.">>

\* the sender tag of the agent side of a log
AgentSender(c) == IF c = "chatbot" THEN "bot" ELSE "agent"

UserMessage(text) == [sender |-> "user", text |-> text]
AgentMessage(c, text) == [sender |-> AgentSender(c), text |-> text]

\* the greeting every controller's log starts with
Greeting(c) == AgentMessage(c, <<"Hello">>)

\* the characters a reply is made of here: an asterisk, a letter, a newline
Chars == {"*", "b", "\n"}

\* the reply of the specification's example
ExampleText ==
  <<"*", "*", "b", "o", "l", "d", "*", "*", " ", "l", "i", "n", "e", "1", "\n",
    "l", "i", "n", "e", "2">>

\* reply texts: every text of up to MaxText characters, and the example
Texts == UNION {[1..n -> Chars] : n \in 0..MaxText} \cup {ExampleText}

\* a message that has no formattedText yet
NotFormatted == <<"unformatted">>

\* where the lazy (.*?) followed by \*\* first succeeds when the group starts
\* before j: the index of the nearest "**" at or after j that is reached
\* without crossing a newline ("." matches no newline), 0 if there is none
RECURSIVE FindClose(_, _)
FindClose(t, j) ==
  IF j + 1 > Len(t) THEN 0
  ELSE IF t[j] = "*" /\ t[j + 1] = "*" THEN j
  ELSE IF t[j] = "\n" THEN 0
  ELSE FindClose(t, j + 1)

\* text.replace(/\*\*(.*?)\*\*/g, "<strong>$1</strong>") from position i on:
\* matches are taken left to right and do not overlap
RECURSIVE ReplaceBoldFrom(_, _)
ReplaceBoldFrom(t, i) ==
  IF i > Len(t) THEN <<>>
  ELSE IF i + 1 <= Len(t) /\ t[i] = "*" /\ t[i + 1] = "*" /\ FindClose(t, i + 2) # 0
  THEN LET j == FindClose(t, i + 2)
       IN <<"<strong>">> \o SubSeq(t, i + 2, j - 1) \o <<"</strong>">>
            \o ReplaceBoldFrom(t, j + 2)
  ELSE <<t[i]>> \o ReplaceBoldFrom(t, i + 1)

ReplaceBold(t) == ReplaceBoldFrom(t, 1)

\* formattedText.replace(/\n/g, "<br>")
ReplaceNewlines(t) == [i \in 1..Len(t) |-> IF t[i] = "\n" THEN "<br>" ELSE t[i]]

\* (variant) only the bold spans are converted
FormatResponseText_BoldOnly(text) == ReplaceBold(text)

\* formatResponseText; the tags it inserts are single tokens of the result
FormatResponseText(text) == ReplaceNewlines(ReplaceBold(text))

----------------------------------------------------------------------------
(* AgentService *)

\* sendMessage lines 53-54: sessionId || this.sessionId || generateSessionId()
ResolveSessionId(explicit, stored, fresh) ==
  IF explicit # Null THEN explicit
  ELSE IF stored # Null THEN stored
  ELSE fresh

\* (variant) the resolved id is stored on every call
StoreResolved_Always(stored, resolved) == resolved

\* (variant) the resolved id is sent but never kept
StoreResolved_Never(stored, resolved) == stored

\* sendMessage lines 57-59: the stored id after the resolution
StoreResolved(stored, resolved) ==
  IF stored = Null THEN resolved ELSE stored

\* (variant) the response's id is taken only while nothing is stored
StoreFromResponse_OnlyIfUnset(stored, data) ==
  IF stored = Null THEN data.session_id ELSE stored

\* sendMessage lines 97-99: the stored id after a successful response
StoreFromResponse(stored, data) ==
  IF data.session_id # Null THEN data.session_id ELSE stored

\* AgentService.getSessionId
GetSessionId(response, stored) ==
  IF response.session_id # Null THEN response.session_id ELSE stored

\* payload.user_id: auth.currentUser?.uid || "user-001"
PayloadUserId(user) == IF user # NoUser THEN user ELSE "user-001"

\* the request body before it is built
NoPayload == [message |-> <<>>, user_id |-> "", session_id |-> Null, skill |-> ""]

\* payload of sendMessage (lines 71-76)
Payload(agentType, message, user, resolved) ==
  [message |-> FormatMessage(agentType, message),
   user_id |-> PayloadUserId(user),
   session_id |-> resolved,
   skill |-> "chat"]

\* getAuthToken: null without a user, else the user's id token
GetAuthToken(user) == IF user = NoUser THEN NoToken ELSE <<"token", user>>

\* (variant) the token check is missing
Unauthenticated_Unchecked(token) == FALSE

\* sendMessage line 48: "if (!token)"
Unauthenticated(token) == token = NoToken

\* the Error a failing sendMessage rejects with
ServiceError(kind, status) ==
  CASE kind = "unauthenticated" -> <<"User not authenticated">>
    [] kind = "http"            -> <<"Agent request failed: ", status>>
    [] kind = "network"         -> <<"TypeError: Failed to fetch">>
    [] kind = "parse"           -> <<"SyntaxError: Unexpected token">>
    [] kind = "body"            -> <<"TypeError: Failed to fetch">>
    [] kind = "token"           -> <<"FirebaseError: auth/network-request-failed">>

NoError == <<>>

\* non-success HTTP statuses the chat endpoint may answer with
FailStatuses == {404, 500}

----------------------------------------------------------------------------
(* Chat controllers *)

\* (variant) the setter is given the new messages instead of the grown log
AppendToLog_Replace(prev, added) == added

\* setMessages((prev) => [...prev, message])
AppendToLog(prev, added) == prev \o added

\* (variant) the guard forgets the busy flag
CanSend_IgnoreBusy(c, inputValue) == Trim(inputValue) # <<>>

\* the guard of handleSendMessage: non-blank input and not busy
CanSend(c, inputValue) == Trim(inputValue) # <<>> /\ ~isLoading[c]

\* (variant) a failure is logged but no bubble is shown
SettleMessages_SilentFailure(c, ok, text) ==
  IF ok THEN << AgentMessage(c, text) >> ELSE << >>

\* (variant) the bubble shows the message of the caught error
SettleMessages_ShowError(c, ok, text) == << AgentMessage(c, text) >>

\* the messages a controller appends once its send has settled: the reply
\* text, or in the catch block the fixed text (text is then the message of the
\* caught error, which is only logged)
SettleMessages(c, ok, text) ==
  IF ok THEN << AgentMessage(c, text) >>
  ELSE << AgentMessage(c, ErrorText(c)) >>

\* (variant) the flag is reset at the end of the try block only
BusyAfterSettle_NoFinally(ok) == ~ok

\* "finally { setIsLoading(false) }": the busy flag once a send has settled,
\* with a reply (ok) or in the catch block
BusyAfterSettle(ok) == FALSE

\* setContextId guarded by "if (sessionId)"
NextContextId(old, sid) == IF sid # Null THEN sid ELSE old

\* history record: the kind of step and the number of the send it belongs to;
\* for a settled send its outcome, the Error sendMessage rejected with and the
\* session id the response carried; status is the HTTP status of the response
\* if one arrived, else 0
Step(kind, k, outcome, error, sid) ==
  [kind |-> kind, id |-> k.id, outcome |-> outcome, error |-> error,
   session_id |-> sid, status |-> 0]

CallsOf(c) == {k \in calls : k.ctrl = c}
InFlight(c) == {k \in calls : k.ctrl = c /\ k.stage = "fetch"}

\* a sendMessage invocation suspended in getIdToken
NewCall(id, c, text, arg, token) ==
  [id |-> id, ctrl |-> c, stage |-> "token", text |-> text, arg |-> arg,
   token |-> token, payload |-> NoPayload, fetches |-> 0]

NoCall == NewCall(0, "", <<>>, Null, NoToken)

\* sendMessage lines 52-86 for the invocation k: resolve the session id, store
\* it if none is stored, build the payload and hand it to fetch
Issue(k) ==
  LET resolved == ResolveSessionId(k.arg, sessionId, Gen(k.ctrl, k.id))
  IN /\ sessionId' = StoreResolved(sessionId, resolved)
     /\ calls' = (calls \ {k}) \cup
          {[k EXCEPT !.stage = "fetch",
                     !.payload = Payload(AgentTypeOf(k.ctrl), k.text, authUser, resolved),
                     !.fetches = @ + 1]}
     /\ lastSend' = Step("issued", k, "none", NoError, Null)

\* handleSendMessage up to its first real suspension point
\* (the controllers are taken as mounted side by side, the way the Chatbot
\* widget sits over a page; the handler is modelled with its own tests, not
\* with the disabled attributes of the controls that call it)
HandleSendMessage(c, inputValue) ==
  IF ~CanSend(c, inputValue)
  THEN \* early return: nothing happens
       /\ UNCHANGED <<lastSend, authUser, currentUser, sessionId, calls, sendCount,
                      messages, isLoading, contextId>>
  ELSE /\ sendCount < MaxSends
       /\ Cardinality(calls) < MaxPending
       /\ sendCount' = sendCount + 1
       /\ UNCHANGED <<authUser, currentUser, contextId>>
       /\ IF c = "chatbot" /\ currentUser = NoUser
          THEN \* sendMessageToAPI answers without calling the service
               /\ messages' = [messages EXCEPT ![c] =
                     AppendToLog(AppendToLog(@, <<UserMessage(inputValue)>>),
                                 SettleMessages(c, TRUE, PleaseLogIn))]
               /\ isLoading' = [isLoading EXCEPT ![c] = BusyAfterSettle(TRUE)]
               /\ lastSend' = Step("settled", NewCall(sendCount + 1, c, inputValue, contextId[c], NoToken),
                                   "nologin", NoError, Null)
               /\ UNCHANGED <<sessionId, calls>>
          ELSE LET token == GetAuthToken(authUser)
                   k == NewCall(sendCount + 1, c, inputValue, contextId[c], token)
               IN IF authUser # NoUser
                  THEN \* suspended in user.getIdToken()
                       /\ messages' = [messages EXCEPT ![c] =
                             AppendToLog(@, <<UserMessage(inputValue)>>)]
                       /\ isLoading' = [isLoading EXCEPT ![c] = TRUE]
                       /\ calls' = calls \cup {k}
                       /\ lastSend' = Step("accepted", k, "none", NoError, Null)
                       /\ UNCHANGED sessionId
                  ELSE IF Unauthenticated(token)
                  THEN \* sendMessage throws before any fetch; the controller
                       \* catches and shows its error bubble
                       /\ messages' = [messages EXCEPT ![c] =
                             AppendToLog(AppendToLog(@, <<UserMessage(inputValue)>>),
                                         SettleMessages(c, FALSE,
                                           ServiceError("unauthenticated", 0)))]
                       /\ isLoading' = [isLoading EXCEPT ![c] = BusyAfterSettle(FALSE)]
                       /\ lastSend' = Step("settled", k, "unauthenticated",
                                           ServiceError("unauthenticated", 0), Null)
                       /\ UNCHANGED <<sessionId, calls>>
                  ELSE \* (reached only if the token check lets null through)
                       /\ messages' = [messages EXCEPT ![c] =
                             AppendToLog(@, <<UserMessage(inputValue)>>)]
                       /\ isLoading' = [isLoading EXCEPT ![c] = TRUE]
                       /\ Issue(k)

\* the controller's catch/finally after the service rejected
SettleFailed(k, kind, status) ==
  /\ messages' = [messages EXCEPT ![k.ctrl] =
       AppendToLog(@, SettleMessages(k.ctrl, FALSE, ServiceError(kind, status)))]
  /\ isLoading' = [isLoading EXCEPT ![k.ctrl] = BusyAfterSettle(FALSE)]
  /\ calls' = calls \ {k}
  /\ lastSend' = [Step("settled", k, kind, ServiceError(kind, status), Null)
                    EXCEPT !.status = status]

\* getIdToken rejects: sendMessage rejects before the session id is resolved
TokenFailed(k) ==
  /\ k.stage = "token"
  /\ SettleFailed(k, "token", 0)
  /\ UNCHANGED <<authUser, currentUser, sessionId, sendCount, contextId>>

\* getIdToken resolves: the token check passes and the request is issued
IssueRequest(k) ==
  /\ k.stage = "token"
  /\ ~Unauthenticated(k.token)
  /\ Issue(k)
  /\ UNCHANGED <<authUser, currentUser, sendCount, messages, isLoading, contextId>>

\* the session ids a chat response may carry: none, the request's, a new one
ResponseSessionIds(k) == {Null, k.payload.session_id, Srv(k.ctrl, k.id)}

\* the bodies the chat server may answer the request of k with
ResponseBodies(k) ==
  {[response |-> <<"o", "k">>, session_id |-> sid] : sid \in ResponseSessionIds(k)}
    \cup {[response |-> <<>>, session_id |-> k.payload.session_id]}

\* fetch resolved with a success status and a parsable body
ResponseOk(k, data) ==
  /\ k.stage = "fetch"
  /\ sessionId' = StoreFromResponse(sessionId, data)
  /\ contextId' = [contextId EXCEPT ![k.ctrl] =
                     NextContextId(@, GetSessionId(data, sessionId'))]
  /\ messages' = [messages EXCEPT ![k.ctrl] =
                     AppendToLog(@, SettleMessages(k.ctrl, TRUE, ExtractResponseText(data)))]
  /\ isLoading' = [isLoading EXCEPT ![k.ctrl] = BusyAfterSettle(TRUE)]
  /\ calls' = calls \ {k}
  /\ lastSend' = [Step("settled", k, "ok", NoError, data.session_id)
                    EXCEPT !.status = 200]
  /\ UNCHANGED <<authUser, currentUser, sendCount>>

\* (variant) a failed request takes the stored id back
StoredAfterFailure_Reset(stored) == Null

\* the stored id after the catch block of sendMessage, which logs and rethrows
StoredAfterFailure(stored) == stored

\* non-success status ("http"), non-success status whose body could not be read
\* ("body"), fetch rejected ("network"), json() rejected ("parse")
ResponseFailed(k, kind, status) ==
  /\ k.stage = "fetch"
  /\ SettleFailed(k, kind, status)
  /\ sessionId' = StoredAfterFailure(sessionId)
  /\ UNCHANGED <<authUser, currentUser, sendCount, contextId>>

\* AgentService.clearSession
ClearSession ==
  /\ sessionId # Null
  /\ sessionId' = Null
  /\ UNCHANGED <<authUser, currentUser, calls, sendCount, messages, isLoading,
                 contextId, lastSend>>

\* the controller formats the reply for its agent message
FormatReply ==
  /\ formattedText = NotFormatted
  /\ formattedText' = FormatResponseText(responseText)
  /\ UNCHANGED responseText

----------------------------------------------------------------------------
(* Auth *)

\* signInWithEmailAndPassword / signInWithPopup succeeded
Login(u) ==
  /\ authUser = NoUser
  /\ authUser' = u
  /\ UNCHANGED <<currentUser, sessionId, calls, sendCount, messages,
                 isLoading, contextId, lastSend>>

\* signOut
Logout ==
  /\ authUser # NoUser
  /\ authUser' = NoUser
  /\ UNCHANGED <<currentUser, sessionId, calls, sendCount, messages,
                 isLoading, contextId, lastSend>>

\* the onAuthStateChanged listener: setCurrentUser(user)
AuthStateChanged ==
  /\ currentUser # authUser
  /\ currentUser' = authUser
  /\ UNCHANGED <<authUser, sessionId, calls, sendCount, messages, isLoading,
                 contextId, lastSend>>

----------------------------------------------------------------------------
(* TripVisualization *)

NoTimer == 0
NoFile == "nofile"
Files == {"photo"}
Prompts == {"", "beach"}

NoVisual == [present |-> FALSE, video_status |-> "", video_url |-> FALSE]

\* video_status values a creation response may carry
CreateStatuses == {"pending", "ready", "failed"}

\* what a poll finds for the user: the visual's status, no visual at all, or
\* a transport error (non-success status, rejected fetch, unparsable body)
PollOutcomes == {"pending", "ready", "failed", "absent", "http", "network", "parse"}

TransportErrors == {"http", "network", "parse"}

Visual(status) ==
  [present |-> TRUE, video_status |-> status, video_url |-> (status = "ready")]

\* a state setter of a component: React drops updates of an unmounted one
SetState(old, new) == IF mounted THEN new ELSE old

VizStep(kind, timer, status) == [kind |-> kind, timer |-> timer, status |-> status]

\* "if (intervalRef.current) clearInterval(intervalRef.current)"
ClearInterval(registered, ref) ==
  IF ref # NoTimer THEN registered \ {ref} ELSE registered

\* "if (referenceImagePreview) URL.revokeObjectURL(referenceImagePreview)"
RevokePreview(live, preview) ==
  IF preview # Null THEN live \ {preview} ELSE live

\* the Generate button is enabled
CanGenerate == prompt # "" /\ ~loading

\* the Regenerate button is shown and enabled
CanRegenerate == visual.present /\ ~loading

\* the prompt box: onChange
SetPrompt(p) ==
  /\ mounted /\ ~loading
  /\ p # prompt
  /\ prompt' = p
  /\ vizEvent' = VizStep("prompt", NoTimer, "")
  /\ UNCHANGED <<mounted, referenceImage, referenceImagePreview, visual, loading,
                 videoReady, intervalRef, timers, liveUrls, urlSeq,
                 creations, genSeq, polls, toastLog, pollingAtUnmount>>

\* handleImageSelect, followed by the cleanup of the effect whose dependency
\* referenceImagePreview changed
HandleImageSelect(file) ==
  /\ mounted /\ ~loading
  /\ file # NoFile => urlSeq < MaxImages
  /\ LET revoked == RevokePreview(liveUrls, referenceImagePreview)
         newPreview == IF file # NoFile THEN <<"blob", urlSeq + 1>> ELSE Null
         changed == newPreview # referenceImagePreview
     IN /\ referenceImage' = file
        /\ referenceImagePreview' = newPreview
        /\ urlSeq' = IF file # NoFile THEN urlSeq + 1 ELSE urlSeq
        /\ liveUrls' =
             LET created == IF file # NoFile THEN revoked \cup {newPreview} ELSE revoked
             IN IF changed THEN RevokePreview(created, referenceImagePreview) ELSE created
        /\ timers' = IF changed THEN ClearInterval(timers, intervalRef) ELSE timers
  /\ vizEvent' = VizStep("image", NoTimer, "")
  /\ UNCHANGED <<mounted, prompt, visual, loading, videoReady, intervalRef,
                 creations, genSeq, polls, toastLog, pollingAtUnmount>>

\* generateVisualization up to the fetch of the creation request
StartCreation ==
  /\ genSeq < MaxGenerations
  /\ loading' = TRUE
  /\ genSeq' = genSeq + 1
  /\ creations' = creations \cup {genSeq + 1}
  /\ UNCHANGED <<mounted, prompt, referenceImage, referenceImagePreview,
                 intervalRef, timers, liveUrls, urlSeq, polls, toastLog,
                 pollingAtUnmount>>

\* click on Generate
GenerateVisualization ==
  /\ mounted /\ CanGenerate
  /\ StartCreation
  /\ vizEvent' = VizStep("generate", NoTimer, "")
  /\ UNCHANGED <<visual, videoReady>>

\* click on Regenerate
Regenerate ==
  /\ mounted /\ CanRegenerate
  /\ visual' = NoVisual
  /\ videoReady' = FALSE
  /\ StartCreation
  /\ vizEvent' = VizStep("regenerate", NoTimer, "")

\* (variant) pollForVideo registers its interval without clearing the old one
TimersAfterPollForVideo_NoClear(r) == timers \cup {r}

\* the timers registered after pollForVideo, called for the creation request
\* r, has cleared the registered interval and set a new one (named r)
TimersAfterPollForVideo(r) == ClearInterval(timers, intervalRef) \cup {r}

\* pollForVideo, called by the creation request r
PollForVideo(r) ==
  /\ intervalRef' = r
  /\ timers' = TimersAfterPollForVideo(r)

\* (variant) polling starts after every successful creation
StartsPolling_Always(status) == TRUE

\* "if (result.video_status === "pending") pollForVideo()"
StartsPolling(status) == status = "pending"

\* the creation request succeeded: the rest of generateVisualization
CreationSucceeded(r, status) ==
  /\ r \in creations
  /\ creations' = creations \ {r}
  /\ visual' = SetState(visual, Visual(status))
  /\ toastLog' = Append(toastLog, "Visualization created!")
  /\ IF StartsPolling(status)
     THEN PollForVideo(r)
     ELSE UNCHANGED <<intervalRef, timers>>
  /\ loading' = SetState(loading, FALSE)
  /\ vizEvent' = VizStep("created", IF StartsPolling(status) THEN r ELSE NoTimer, status)
  /\ UNCHANGED <<mounted, prompt, referenceImage, referenceImagePreview,
                 videoReady, liveUrls, urlSeq, genSeq, polls, pollingAtUnmount>>

\* the creation request failed (non-success status, rejected fetch or body)
CreationFailed(r) ==
  /\ r \in creations
  /\ creations' = creations \ {r}
  /\ loading' = SetState(loading, FALSE)
  /\ vizEvent' = VizStep("createFailed", NoTimer, "")
  /\ UNCHANGED <<mounted, prompt, referenceImage, referenceImagePreview,
                 visual, videoReady, intervalRef, timers, liveUrls,
                 urlSeq, genSeq, polls, toastLog, pollingAtUnmount>>

\* the interval callback fires: it starts the fetch of the visuals list
PollTick(t) ==
  /\ t \in timers
  /\ polls < MaxPollsInFlight
  /\ polls' = polls + 1
  /\ vizEvent' = VizStep("tick", t, "")
  /\ UNCHANGED <<mounted, prompt, referenceImage, referenceImagePreview,
                 visual, loading, videoReady, intervalRef, timers,
                 liveUrls, urlSeq, creations, genSeq, toastLog, pollingAtUnmount>>

\* (variant) only a ready video stops the polling
TimersAfterPoll_ReadyOnly(outcome) ==
  IF outcome = "ready" THEN ClearInterval(timers, intervalRef) ELSE timers

\* the timers left registered after a poll has seen `outcome`
TimersAfterPoll(outcome) ==
  IF outcome \in {"ready", "failed"}
  THEN ClearInterval(timers, intervalRef)
  ELSE timers

\* the rest of the interval callback once its fetch has settled; the history
\* names the timer that was registered when the poll settled, if any
PollSettled(outcome) ==
  /\ polls > 0
  /\ polls' = polls - 1
  /\ timers' = TimersAfterPoll(outcome)
  /\ IF outcome = "ready"
     THEN /\ visual' = SetState(visual, Visual("ready"))
          /\ videoReady' = SetState(videoReady, TRUE)
          /\ toastLog' = Append(toastLog, "Video ready!")
     ELSE UNCHANGED <<visual, videoReady, toastLog>>
  /\ vizEvent' = VizStep("polled",
                         IF intervalRef \in timers THEN intervalRef ELSE NoTimer,
                         outcome)
  /\ UNCHANGED <<mounted, prompt, referenceImage, referenceImagePreview,
                 loading, intervalRef, liveUrls, urlSeq, creations,
                 genSeq, pollingAtUnmount>>

\* the component is unmounted: the cleanup of the effect runs
Unmount ==
  /\ mounted
  /\ mounted' = FALSE
  /\ timers' = ClearInterval(timers, intervalRef)
  /\ liveUrls' = RevokePreview(liveUrls, referenceImagePreview)
  /\ pollingAtUnmount' = (timers # {})
  /\ vizEvent' = VizStep("unmount", NoTimer, "")
  /\ UNCHANGED <<prompt, referenceImage, referenceImagePreview, visual,
                 loading, videoReady, intervalRef, urlSeq, creations,
                 genSeq, polls, toastLog>>

----------------------------------------------------------------------------
(* AuthContext: signup and the user document *)

\* the display names given at signup
Names == {"Ann", "Bob", "Cy"}

\* user.displayName of a user whose profile has no name (null)
NoName == "(null)"

\* createUserDocument called without additionalData
NoData == "(none)"

\* the callers of createUserDocument
Callers == {"signup", "listener"}

\* users/{uid} before any setDoc reached it: snapshot.exists() is false
NoDoc == [exists |-> FALSE, displayName |-> NoName]

\* the additionalData each caller passes to createUserDocument
AdditionalData(who) == IF who = "signup" THEN signupName ELSE NoData

\* the object createUserDocument hands to setDoc: the fields of the user,
\* with additionalData spread over them
NewDocument(userDisplayName, additionalData) ==
  [exists |-> TRUE,
   displayName |-> IF additionalData = NoData THEN userDisplayName
                   ELSE additionalData]

\* signup(email, password, displayName) is called and sends
\* createUserWithEmailAndPassword
Signup(displayName) ==
  /\ signupPc = "idle"
  /\ authUser = NoUser
  /\ signupPc' = "createUser"
  /\ signupName' = displayName
  /\ UNCHANGED <<authUser, currentUser, createPc, profileName, userDoc, writes>>

\* createUserWithEmailAndPassword resolved: the new user is signed in and
\* signup sends updateProfile
UserCreated(u) ==
  /\ signupPc = "createUser"
  /\ authUser' = u
  /\ signupPc' = "updateProfile"
  /\ UNCHANGED <<currentUser, createPc, signupName, profileName, userDoc, writes>>

\* updateProfile resolved: user.displayName is set and signup calls
\* createUserDocument(user, { displayName }), which sends getDoc
ProfileUpdated ==
  /\ signupPc = "updateProfile"
  /\ profileName' = signupName
  /\ signupPc' = "createUserDocument"
  /\ createPc' = [createPc EXCEPT !["signup"] = "getDoc"]
  /\ UNCHANGED <<authUser, currentUser, signupName, userDoc, writes>>

\* createUserWithEmailAndPassword or updateProfile rejected: so does signup
SignupRejected ==
  /\ signupPc \in {"createUser", "updateProfile"}
  /\ signupPc' = "failed"
  /\ UNCHANGED <<authUser, currentUser, createPc, signupName, profileName,
                 userDoc, writes>>

\* the onAuthStateChanged listener: setCurrentUser(user), and for a user
\* createUserDocument(user), which sends getDoc
OnAuthStateChanged ==
  /\ AuthStateChanged
  /\ createPc' = IF authUser # NoUser
                 THEN [createPc EXCEPT !["listener"] = "getDoc"]
                 ELSE createPc
  /\ UNCHANGED <<signupPc, signupName, profileName, userDoc, writes>>

\* what snapshot.exists() can be: the stored document counts, and a write of
\* this client that has not settled yet may or may not show in the snapshot
SnapshotExists ==
  IF userDoc.exists THEN {TRUE}
  ELSE IF writes # <<>> THEN {TRUE, FALSE}
  ELSE {FALSE}

\* getDoc resolved in createUserDocument: no document yet, so setDoc is sent
\* with the user's fields as they are now; or there is one and the call returns
GetDocResolved(who, exists) ==
  /\ createPc[who] = "getDoc"
  /\ exists \in SnapshotExists
  /\ IF exists
     THEN /\ createPc' = [createPc EXCEPT ![who] = "returned"]
          /\ writes' = writes
     ELSE /\ createPc' = [createPc EXCEPT ![who] = "setDoc"]
          /\ writes' = Append(writes,
                  [by |-> who,
                   data |-> NewDocument(profileName, AdditionalData(who))])
  /\ signupPc' = IF who = "signup" /\ exists THEN "done" ELSE signupPc
  /\ UNCHANGED <<authUser, currentUser, signupName, profileName, userDoc>>

\* getDoc rejected: createUserDocument rejects, and signup with it
GetDocRejected(who) ==
  /\ createPc[who] = "getDoc"
  /\ createPc' = [createPc EXCEPT ![who] = "threw"]
  /\ signupPc' = IF who = "signup" THEN "failed" ELSE signupPc
  /\ UNCHANGED <<authUser, currentUser, signupName, profileName, userDoc, writes>>

\* the oldest setDoc settles: the document is replaced with its data, or the
\* write is rejected, which createUserDocument logs; either way it returns
SetDocSettled(ok) ==
  /\ writes # <<>>
  /\ LET w == Head(writes) IN
       /\ userDoc' = IF ok THEN w.data ELSE userDoc
       /\ createPc' = [createPc EXCEPT ![w.by] = IF ok THEN "returned" ELSE "caught"]
       /\ signupPc' = IF w.by = "signup" THEN "done" ELSE signupPc
  /\ writes' = Tail(writes)
  /\ UNCHANGED <<authUser, currentUser, signupName, profileName>>

----------------------------------------------------------------------------
(* TransactionsPage and Layout: the data of the user named by ?userId= *)

\* searchParams.get("userId") when the parameter is absent (null)
NoParam == "(null)"

\* the user ids the address bar is given
UserIds == {"user-001", "user-003"}

\* userIdToUse of loadData and loadUser
UserIdToUse(param) == IF param = NoParam THEN "user-002" ELSE param

\* what fetchUser and fetchTransactions resolve with for a user id
UserOf(id) == <<"user", id>>
TransactionsOf(id) == << <<"transaction", id>> >>

\* the runs the two [userId] effects start: loadData of the page and loadUser
\* of the layout
StartLoads(n, param) ==
  { [n |-> n, by |-> c, userIdToUse |-> UserIdToUse(param)] :
      c \in {"page", "layout"} }

\* the userId search parameter changes: both effects run again
Navigate(id) ==
  /\ id # userId
  /\ loadSeq < MaxNavigations + 1
  /\ userId' = id
  /\ loadSeq' = loadSeq + 1
  /\ loads' = loads \cup StartLoads(loadSeq + 1, id)
  /\ UNCHANGED <<pageUser, transactions, pageLoading, pageError, layoutUser,
                 loadRejected>>

\* loadData: both fetches resolved
LoadDataResolved(l) ==
  /\ l.by = "page"
  /\ loads' = loads \ {l}
  /\ pageUser' = UserOf(l.userIdToUse)
  /\ transactions' = TransactionsOf(l.userIdToUse)
  /\ pageLoading' = FALSE
  /\ UNCHANGED <<userId, loadSeq, pageError, layoutUser, loadRejected>>

\* loadData: one of the fetches rejected
LoadDataRejected(l) ==
  /\ l.by = "page"
  /\ loads' = loads \ {l}
  /\ pageError' = "Failed to load data."
  /\ pageLoading' = FALSE
  /\ loadRejected' = TRUE
  /\ UNCHANGED <<userId, loadSeq, pageUser, transactions, layoutUser>>

\* loadUser of the layout: fetchUser resolved
LoadUserResolved(l) ==
  /\ l.by = "layout"
  /\ loads' = loads \ {l}
  /\ layoutUser' = UserOf(l.userIdToUse)
  /\ UNCHANGED <<userId, loadSeq, pageUser, transactions, pageLoading,
                 pageError, loadRejected>>

\* loadUser of the layout: fetchUser rejected, which is logged
LoadUserRejected(l) ==
  /\ l.by = "layout"
  /\ loads' = loads \ {l}
  /\ loadRejected' = TRUE
  /\ UNCHANGED <<userId, loadSeq, pageUser, transactions, pageLoading,
                 pageError, layoutUser>>

----------------------------------------------------------------------------
(* Specifications *)

ProgramInit ==
  /\ authUser = NoUser
  /\ currentUser = NoUser
  /\ sessionId = Null
  /\ calls = {}
  /\ sendCount = 0
  /\ messages = [c \in Controllers |-> <<Greeting(c)>>]
  /\ isLoading = [c \in Controllers |-> FALSE]
  /\ contextId = [c \in Controllers |-> Null]
  /\ lastSend = Step("init", NoCall, "none", NoError, Null)
  /\ mounted = TRUE
  /\ prompt = ""
  /\ referenceImage = NoFile
  /\ referenceImagePreview = Null
  /\ visual = NoVisual
  /\ loading = FALSE
  /\ videoReady = FALSE
  /\ intervalRef = NoTimer
  /\ timers = {}
  /\ liveUrls = {}
  /\ urlSeq = 0
  /\ creations = {}
  /\ genSeq = 0
  /\ polls = 0
  /\ toastLog = <<>>
  /\ pollingAtUnmount = FALSE
  /\ vizEvent = VizStep("init", NoTimer, "")
  /\ signupPc = "idle"
  /\ createPc = [who \in Callers |-> "none"]
  /\ signupName = NoName
  /\ profileName = NoName
  /\ userDoc = NoDoc
  /\ writes = <<>>
  /\ userId = NoParam
  /\ loads = StartLoads(1, NoParam)
  /\ loadSeq = 1
  /\ pageUser = Null
  /\ transactions = <<>>
  /\ pageLoading = TRUE
  /\ pageError = ""
  /\ layoutUser = Null
  /\ loadRejected = FALSE

Init ==
  /\ ProgramInit
  /\ responseText = <<>>
  /\ formattedText = NotFormatted
  /\ clearedId = Null

\* the chat side: auth, AgentService and the four controllers
Next ==
  \/ \E c \in Controllers, i \in Inputs : HandleSendMessage(c, i) /\ UNCHANGED notChat
  \/ \E k \in calls : TokenFailed(k) /\ UNCHANGED notChat
  \/ \E k \in calls : IssueRequest(k) /\ UNCHANGED notChat
  \/ \E k \in calls : \E data \in ResponseBodies(k) :
        ResponseOk(k, data) /\ UNCHANGED notChat
  \/ \E k \in calls : \E kind \in {"network", "parse"} :
        ResponseFailed(k, kind, 0) /\ UNCHANGED notChat
  \/ \E k \in calls : \E st \in FailStatuses : \E kind \in {"http", "body"} :
        ResponseFailed(k, kind, st) /\ UNCHANGED notChat
  \/ \E u \in Users : Login(u) /\ UNCHANGED notChat
  \/ Logout /\ UNCHANGED notChat
  \/ AuthStateChanged /\ UNCHANGED notChat

Spec == Init /\ [][Next]_vars

\* the controllers on screen in SessionSpec: one page and the widget
OnScreen == {"daily", "chatbot"}

\* the chat side with a caller of clearSession ("starting new conversations")
SessionNext ==
  \/ \E c \in OnScreen, i \in Inputs :
        HandleSendMessage(c, i) /\ UNCHANGED <<notSession, clearedId>>
  \/ \E k \in calls : TokenFailed(k) /\ UNCHANGED <<notSession, clearedId>>
  \/ \E k \in calls :
        /\ IssueRequest(k)
        /\ clearedId' = IF k.arg = Null THEN Null ELSE clearedId
        /\ UNCHANGED notSession
  \/ \E k \in calls : \E data \in ResponseBodies(k) :
        ResponseOk(k, data) /\ UNCHANGED <<notSession, clearedId>>
  \/ \E k \in calls : \E kind \in {"network", "parse"} :
        ResponseFailed(k, kind, 0) /\ UNCHANGED <<notSession, clearedId>>
  \/ \E k \in calls : \E st \in FailStatuses : \E kind \in {"http", "body"} :
        ResponseFailed(k, kind, st) /\ UNCHANGED <<notSession, clearedId>>
  \/ \E u \in Users : Login(u) /\ UNCHANGED <<notSession, clearedId>>
  \/ Logout /\ UNCHANGED <<notSession, clearedId>>
  \/ AuthStateChanged /\ UNCHANGED <<notSession, clearedId>>
  \/ ClearSession /\ clearedId' = sessionId /\ UNCHANGED notSession

SessionSpec == Init /\ [][SessionNext]_vars

\* a pending sendMessage invocation moves on: getIdToken or fetch settles
Settles ==
  \/ \E k \in calls : TokenFailed(k)
  \/ \E k \in calls : IssueRequest(k)
  \/ \E k \in calls : \E data \in ResponseBodies(k) : ResponseOk(k, data)
  \/ \E k \in calls : \E kind \in {"network", "parse"} : ResponseFailed(k, kind, 0)
  \/ \E k \in calls : \E st \in FailStatuses : \E kind \in {"http", "body"} :
        ResponseFailed(k, kind, st)

\* one page and the widget, with every promise settling in the end
LiveNext ==
  \/ \E c \in OnScreen, i \in Inputs : HandleSendMessage(c, i) /\ UNCHANGED notChat
  \/ Settles /\ UNCHANGED notChat
  \/ \E u \in Users : Login(u) /\ UNCHANGED notChat
  \/ Logout /\ UNCHANGED notChat
  \/ AuthStateChanged /\ UNCHANGED notChat

LiveSpec == Init /\ [][LiveNext]_vars /\ WF_vars(Settles /\ UNCHANGED notChat)

\* the trip visualization component
VizNext ==
  \/ \E p \in Prompts : SetPrompt(p) /\ UNCHANGED notViz
  \/ \E f \in Files \cup {NoFile} : HandleImageSelect(f) /\ UNCHANGED notViz
  \/ GenerateVisualization /\ UNCHANGED notViz
  \/ Regenerate /\ UNCHANGED notViz
  \/ \E r \in creations, st \in CreateStatuses :
        CreationSucceeded(r, st) /\ UNCHANGED notViz
  \/ \E r \in creations : CreationFailed(r) /\ UNCHANGED notViz
  \/ \E t \in timers : PollTick(t) /\ UNCHANGED notViz
  \/ \E o \in PollOutcomes : PollSettled(o) /\ UNCHANGED notViz
  \/ Unmount /\ UNCHANGED notViz

VizSpec == Init /\ [][VizNext]_vars

\* formatResponseText applied to a reply text
FormatInit ==
  /\ ProgramInit
  /\ responseText \in Texts
  /\ formattedText = NotFormatted
  /\ clearedId = Null

FormatNext == FormatReply /\ UNCHANGED notText

FormatSpec == FormatInit /\ [][FormatNext]_vars

\* signup of a new user and the auth listener
SignupNext ==
  \/ \E n \in Names : Signup(n) /\ UNCHANGED notSignup
  \/ \E u \in Users : UserCreated(u) /\ UNCHANGED notSignup
  \/ ProfileUpdated /\ UNCHANGED notSignup
  \/ SignupRejected /\ UNCHANGED notSignup
  \/ OnAuthStateChanged /\ UNCHANGED notSignup
  \/ \E who \in Callers, exists \in BOOLEAN :
        GetDocResolved(who, exists) /\ UNCHANGED notSignup
  \/ \E who \in Callers : GetDocRejected(who) /\ UNCHANGED notSignup
  \/ \E ok \in BOOLEAN : SetDocSettled(ok) /\ UNCHANGED notSignup

SignupSpec == Init /\ [][SignupNext]_vars

\* the transactions page inside the layout
LoadNext ==
  \/ \E id \in UserIds \cup {NoParam} : Navigate(id) /\ UNCHANGED notLoad
  \/ \E l \in loads : LoadDataResolved(l) /\ UNCHANGED notLoad
  \/ \E l \in loads : LoadDataRejected(l) /\ UNCHANGED notLoad
  \/ \E l \in loads : LoadUserResolved(l) /\ UNCHANGED notLoad
  \/ \E l \in loads : LoadUserRejected(l) /\ UNCHANGED notLoad

LoadSpec == Init /\ [][LoadNext]_vars

----------------------------------------------------------------------------
(* Properties of the polling loop (VizSpec) *)

\* a step in which the interval callback finished after its fetch settled
PollSettledStep == vizEvent'.kind = "polled" /\ polls' = polls - 1

\* C4: a poll that observes ready or failed leaves no interval registered, so
\* no later tick starts a poll; a poll that ends in a transport error leaves
\* the registered intervals as they were, so the next tick still polls.
C4_PollingStopsOnTerminalStatusOnly ==
  [][ PollSettledStep =>
        /\ vizEvent'.status \in {"ready", "failed"} => timers' = {}
        /\ vizEvent'.status \in TransportErrors => timers' = timers ]_vars

\* C4 witness: a poll has just observed failed while an interval was
\* registered, and that interval is gone
C4_Witness ==
  /\ vizEvent.kind = "polled"
  /\ vizEvent.status = "failed"
  /\ vizEvent.timer # NoTimer
  /\ timers = {}

\* C5 (as claimed): once the component was unmounted while polling was
\* active, no poll fetch is started any more and no object URL is left
\* unrevoked.
C5_NoPollAfterUnmount ==
  (~mounted /\ pollingAtUnmount) => (vizEvent.kind # "tick" /\ liveUrls = {})

\* C9 (as claimed): once a new generation has been requested, no poll of a
\* timer that an earlier generation registered fires.
C9_NewGenerationCancelsTimer ==
  vizEvent.kind = "tick" => vizEvent.timer = genSeq

----------------------------------------------------------------------------
(* Properties of the chat controllers and of AgentService (Spec) *)

\* the controller a session id was generated for or newly assigned to
IdController(id) == id[2]

\* the invocation k is handed to fetch in this step
Issued(k) ==
  /\ k \in calls /\ k.stage = "token"
  /\ \E k2 \in calls' : k2.id = k.id /\ k2.stage = "fetch"

\* the invocation k as it is after the step
After(k) == CHOOSE k2 \in calls' : k2.id = k.id

\* a sendMessage invocation got its response and resolved in this step
ResolvedStep ==
  /\ calls' # calls
  /\ lastSend'.kind = "settled" /\ lastSend'.outcome = "ok"

\* C1: no controller ever has more than one chat request in flight.
C1_OneRequestInFlight ==
  \A c \in Controllers : Cardinality(InFlight(c)) <= 1

\* C1 witness: a controller has a request in flight and is busy, so a send
\* with a real message is refused now
C1_Witness ==
  \E c \in Controllers :
    /\ InFlight(c) # {}
    /\ isLoading[c]
    /\ ~CanSend(c, <<"h", "i">>)

\* C2: a successful response without a session id leaves the stored id as it
\* was; one with a session id makes exactly that id the stored one.
C2_StoredIdFollowsResponse ==
  [][ ResolvedStep =>
        sessionId' = (IF lastSend'.session_id = Null THEN sessionId
                      ELSE lastSend'.session_id) ]_vars

\* C2 witness: the third send got a newly assigned id from the server while
\* another id was stored and the controller had an id of its own; the new id
\* is the stored one
C2_Witness ==
  /\ lastSend.kind = "settled" /\ lastSend.outcome = "ok"
  /\ lastSend.id = 3
  /\ \E c \in Controllers :
       /\ lastSend.session_id = Srv(c, 3)
       /\ Len(messages[c]) = 5
       /\ messages[c][3].text = <<"o", "k">>
  /\ sessionId = lastSend.session_id

\* C3: a request in flight always carries a bearer token, and a send accepted
\* while auth.currentUser is absent either never calls the service (Chatbot
\* without a React user) or fails as unauthenticated, without any request.
C3_UnauthenticatedNeverFetches ==
  /\ [](\A k \in calls : k.stage = "fetch" => k.token # NoToken)
  /\ [][ (sendCount' = sendCount + 1 /\ authUser = NoUser) =>
           /\ calls' = calls
           /\ lastSend'.kind = "settled"
           /\ lastSend'.outcome \in {"unauthenticated", "nologin"}
           /\ lastSend'.outcome = "unauthenticated" =>
                lastSend'.error = <<"User not authenticated">> ]_vars

\* C3 witness: after an authenticated send stored a session id and the user
\* logged out, a send has failed as unauthenticated and nothing is in flight
C3_Witness ==
  /\ lastSend.kind = "settled" /\ lastSend.outcome = "unauthenticated"
  /\ authUser = NoUser
  /\ sessionId # Null
  /\ calls = {}

\* C6: the request carries the explicit id, else the stored id, else a fresh
\* one; the stored id becomes the resolved id only if none was stored.
C6_SessionIdResolution ==
  [][ \A k \in calls : Issued(k) =>
        /\ After(k).payload.session_id =
             (IF k.arg # Null THEN k.arg
              ELSE IF sessionId # Null THEN sessionId
              ELSE Gen(k.ctrl, k.id))
        /\ sessionId' = (IF sessionId = Null THEN After(k).payload.session_id
                         ELSE sessionId) ]_vars

\* C6 witness: a request was just issued with an explicit id that differs
\* from the stored one, and the stored one is untouched
C6_Witness ==
  /\ lastSend.kind = "issued"
  /\ \E k \in calls :
       /\ k.id = lastSend.id /\ k.stage = "fetch"
       /\ k.arg # Null
       /\ k.payload.session_id = k.arg
       /\ sessionId # Null /\ sessionId # k.arg

\* C7 (as claimed): once a session id is stored, every request issued carries
\* the stored id.
C7_RequestsCarryStoredId ==
  [][ \A k \in calls : (Issued(k) /\ sessionId # Null) =>
        After(k).payload.session_id = sessionId ]_vars

\* C8 (as claimed): a request never carries a session id that was generated
\* for, or assigned by the server to, another controller.
C8_DedicatedSessionId ==
  \A k \in calls :
    k.stage = "fetch" => IdController(k.payload.session_id) = k.ctrl

\* the log of c: greeting, then user and agent messages in turn
Alternates(c) ==
  \A i \in 2..Len(messages[c]) :
    messages[c][i].sender = (IF i % 2 = 0 THEN "user" ELSE AgentSender(c))

\* C10: per accepted send one user message, then at most one request, then
\* one agent message: the reply after a success, the error text after a
\* failure of the service.
C10_OneExchangePerSend ==
  /\ [](\A c \in Controllers :
          /\ Alternates(c)
          /\ (Len(messages[c]) % 2 = 0) <=> (CallsOf(c) # {})
          /\ \A k \in CallsOf(c) :
               /\ messages[c][Len(messages[c])] = UserMessage(k.text)
               /\ k.fetches = (IF k.stage = "fetch" THEN 1 ELSE 0))
  /\ [][ \A k \in calls : (k \notin calls' /\ ~Issued(k)) =>
           /\ Len(messages'[k.ctrl]) = Len(messages[k.ctrl]) + 1
           /\ SubSeq(messages'[k.ctrl], 1, Len(messages[k.ctrl])) = messages[k.ctrl]
           /\ LET m == messages'[k.ctrl][Len(messages'[k.ctrl])]
              IN IF lastSend'.outcome = "ok"
                 THEN m.text \in {<<"o", "k">>, <<"No response from agent">>}
                 ELSE m.text = ErrorText(k.ctrl) ]_vars

\* C10 witness: a page controller completed one send with a reply and a
\* second one with the error message after the request failed
C10_Witness ==
  /\ lastSend.kind = "settled" /\ lastSend.outcome = "http"
  /\ \E c \in Controllers \ {"chatbot"} :
       /\ CallsOf(c) = {}
       /\ Len(messages[c]) = 5
       /\ messages[c][3].text = <<"o", "k">>
       /\ messages[c][5].text = ErrorText(c)

\* s is an initial part of t
IsPrefix(s, t) == Len(s) <= Len(t) /\ SubSeq(t, 1, Len(s)) = s

\* C11: the message log of every controller only grows at its end: in every
\* step the old log is a prefix of the new one.
C11_LogAppendOnly ==
  [][ \A c \in Controllers : IsPrefix(messages[c], messages'[c]) ]_vars

\* C11 witness: a log that grew over two sends still starts with the greeting
\* and the first user message
C11_Witness ==
  \E c \in Controllers :
    /\ Len(messages[c]) = 5
    /\ messages[c][1] = Greeting(c)
    /\ messages[c][2] = UserMessage(<<"h", "i">>)
    /\ messages[c][4] = UserMessage(<<"h", "i">>)

\* a send settled in this step because the API client rejected
FailedStep ==
  /\ (calls' # calls \/ sendCount' # sendCount)
  /\ lastSend'.kind = "settled"
  /\ lastSend'.outcome \notin {"ok", "nologin"}

\* C12: whenever the API client rejects, whatever the kind of failure, the
\* controller that sent appends its one fixed apology as the last message,
\* never the text of the error, and is ready for the next send (the error
\* went no further); no other log changes.
C12_FailuresBecomeOneApology ==
  [][ FailedStep =>
        \E c \in Controllers :
          /\ messages'[c] # messages[c]
          /\ messages'[c][Len(messages'[c])] = AgentMessage(c, ErrorText(c))
          /\ messages'[c][Len(messages'[c]) - 1].sender = "user"
          /\ lastSend'.error # NoError
          /\ ErrorText(c) # lastSend'.error
          /\ ~isLoading'[c]
          /\ \A d \in Controllers \ {c} : messages'[d] = messages[d] ]_vars

\* C12 witness: a controller shows the same apology for two failed sends, the
\* second of which failed while parsing the response
C12_Witness ==
  /\ lastSend.kind = "settled" /\ lastSend.outcome = "parse"
  /\ \E c \in Controllers :
       /\ Len(messages[c]) = 5
       /\ messages[c][3].text = ErrorText(c)
       /\ messages[c][5].text = ErrorText(c)
       /\ ~isLoading[c]

\* C13 (as claimed): a response with a non-success status makes sendMessage
\* reject with the request-failed error that carries that status; a failed
\* network call or failed JSON parsing makes it reject with an error that
\* carries no status.
C13_ErrorKinds ==
  lastSend.kind = "settled" =>
    /\ lastSend.status \in FailStatuses =>
         lastSend.error = <<"Agent request failed: ", lastSend.status>>
    /\ lastSend.outcome \in {"network", "parse"} =>
         /\ lastSend.status \notin FailStatuses
         /\ lastSend.error \in {ServiceError("network", 0), ServiceError("parse", 0)}

----------------------------------------------------------------------------
(* Properties of formatResponseText (FormatSpec) *)

\* how often x occurs in t
Count(t, x) == Cardinality({i \in 1..Len(t) : t[i] = x})

\* the formatted text with every tag written back as what it stands for
RECURSIVE Untag(_)
Untag(t) ==
  IF t = <<>> THEN <<>>
  ELSE (CASE Head(t) \in {"<strong>", "</strong>"} -> <<"*", "*">>
          [] Head(t) = "<br>" -> <<"\n">>
          [] OTHER -> <<Head(t)>>) \o Untag(Tail(t))

\* t still has a pair of "**" with no line break between them
HasSpan(t) ==
  \E i \in 1..Len(t), j \in 1..Len(t) :
    /\ i + 2 <= j /\ j + 1 <= Len(t)
    /\ t[i] = "*" /\ t[i + 1] = "*" /\ t[j] = "*" /\ t[j + 1] = "*"
    /\ \A k \in i..j : t[k] # "<br>"

ExampleFormatted ==
  <<"<strong>", "b", "o", "l", "d", "</strong>", " ", "l", "i", "n", "e", "1",
    "<br>", "l", "i", "n", "e", "2">>

\* C14: formatResponseText turns every **...** span (a span lies within one
\* line) into <strong>...</strong> and then every newline into <br>: nothing
\* else changes, no span and no newline is left, and the example
\* "**bold** line1\nline2" gives "<strong>bold</strong> line1<br>line2".
C14_FormatResponseText ==
  formattedText # NotFormatted =>
    /\ responseText = ExampleText => formattedText = ExampleFormatted
    /\ Untag(formattedText) = responseText
    /\ Count(formattedText, "<strong>") = Count(formattedText, "</strong>")
    /\ Count(formattedText, "<br>") = Count(responseText, "\n")
    /\ Count(formattedText, "\n") = 0
    /\ ~HasSpan(formattedText)

\* C14 witness: the example has been formatted
C14_Witness ==
  /\ responseText = ExampleText
  /\ formattedText = ExampleFormatted

----------------------------------------------------------------------------
(* Further properties of TripVisualization (VizSpec) *)

\* C15: an interval timer is registered only in the step in which a creation
\* request succeeds with video status pending; a creation that fails, or
\* succeeds with another status, registers none.
C15_TimerOnlyAfterPendingCreation ==
  [][ /\ (timers' \ timers # {}) =>
           (vizEvent'.kind = "created" /\ vizEvent'.status = "pending")
      /\ (creations' # creations /\ creations' \subseteq creations
            /\ ~(vizEvent'.kind = "created" /\ vizEvent'.status = "pending")) =>
           (timers' = timers /\ intervalRef' = intervalRef) ]_vars

\* C15 witness: a creation has just succeeded as pending and its timer is the
\* one registered
C15_Witness ==
  /\ vizEvent.kind = "created" /\ vizEvent.status = "pending"
  /\ vizEvent.timer # NoTimer
  /\ timers = {vizEvent.timer}
  /\ intervalRef = vizEvent.timer

\* C16 (as claimed): while the component is mounted a registered timer goes
\* away only when a poll has seen ready or failed, or when a new generation
\* starts its own polling; no other step cancels it.
C16_OnlyTerminalStatusEndsPolling ==
  [][ (mounted' /\ timers \ timers' # {}) =>
        \/ vizEvent'.kind = "polled" /\ vizEvent'.status \in {"ready", "failed"}
        \/ vizEvent'.kind = "created" ]_vars

----------------------------------------------------------------------------
(* Further properties of the chat controllers and of AgentService (Spec) *)

\* C17: when requests of two controllers are in flight together, each
\* response that carries a session id overwrites the stored id, whichever
\* request was sent first; so after the most recent such response the stored
\* id is that response's id.
C17_LastResponseWins ==
  /\ []( (lastSend.kind = "settled" /\ lastSend.outcome = "ok"
            /\ lastSend.session_id # Null) => sessionId = lastSend.session_id )
  /\ [][ \A k, k2 \in calls :
           ( /\ k.ctrl # k2.ctrl /\ k.stage = "fetch" /\ k2.stage = "fetch"
             /\ k \notin calls' /\ lastSend'.id = k.id
             /\ lastSend'.outcome = "ok" /\ lastSend'.session_id # Null )
           => /\ sessionId' = lastSend'.session_id
              /\ k2 \in calls' ]_vars

\* C17 witness: two controllers' sends overlapped; the one accepted first was
\* answered last, both with ids of their own from the server, and the stored
\* id is the one answered last
C17_Witness ==
  /\ calls = {}
  /\ lastSend.kind = "settled" /\ lastSend.outcome = "ok" /\ lastSend.id = 1
  /\ \E c, d \in Controllers :
       /\ c # d
       /\ lastSend.session_id = Srv(c, 1)
       /\ contextId[d] = Srv(d, 2)
       /\ contextId[c] = Srv(c, 1)
       /\ sessionId = Srv(c, 1)

\* a value that is a session id: generated by the client or assigned by the
\* server
IsSessionId(id) == id # Null /\ id[1] \in {"gen", "srv"}

\* a step that only empties the stored session id, as clearSession does
ClearSessionStep ==
  /\ sessionId' = Null
  /\ UNCHANGED <<authUser, currentUser, calls, sendCount, messages, isLoading,
                 contextId, lastSend>>

\* C18: the stored session id is one value, absent or a non-empty id; it is
\* absent until a send passes the authentication check, every request that
\* passes it leaves an id stored, and once present the stored id is never
\* absent again except by clearSession.
C18_StoredIdSeededOnce ==
  /\ [](sessionId = Null \/ IsSessionId(sessionId))
  /\ [][ (sessionId = Null /\ sessionId' # Null) =>
           \/ /\ lastSend'.kind = "issued"
              /\ \E k \in calls' :
                   /\ k.id = lastSend'.id /\ k.token # NoToken
                   /\ sessionId' = k.payload.session_id
           \/ lastSend'.kind = "settled" /\ lastSend'.outcome = "ok" ]_vars
  /\ [][ (\E k \in calls : Issued(k)) => sessionId' # Null ]_vars
  /\ [][ (sessionId # Null /\ sessionId' = Null) => ClearSessionStep ]_vars

\* C18 witness: the first send failed the authentication check and stored
\* nothing; the second passed it and its generated id is now stored
C18_Witness ==
  /\ lastSend.kind = "issued" /\ lastSend.id = 2
  /\ \E c \in Controllers :
       /\ sessionId = Gen(c, 2)
       /\ Len(messages[c]) = 4
       /\ messages[c][3].text = ErrorText(c)

\* C19: the message of a request is the text the controller passed, with the
\* fixed sentence of its agent kind in front for the three pages and with
\* nothing added for the general kind of the Chatbot widget.
C19_HintPrefix ==
  \A k \in calls :
    k.stage = "fetch" =>
      k.payload.message =
        (CASE k.ctrl = "daily"  -> <<"I need help with daily spending. ">> \o k.text
           [] k.ctrl = "big"    -> <<"I need help with a big purchase. ">> \o k.text
           [] k.ctrl = "travel" -> <<"I need help with travel planning. ">> \o k.text
           [] k.ctrl = "chatbot" -> k.text)

\* C19 witness: a request of the Travel page and one of the Chatbot widget
\* are in flight, the first with the travel sentence in front of the text,
\* the second with the text alone
C19_Witness ==
  \E k, g \in calls :
    /\ k.ctrl = "travel" /\ k.stage = "fetch"
    /\ k.payload.message = <<"I need help with travel planning. ", "h", "i">>
    /\ g.ctrl = "chatbot" /\ g.stage = "fetch"
    /\ g.payload.message = <<"h", "i">>

----------------------------------------------------------------------------
(* Unmounted TripVisualization (VizSpec) *)

\* C20 (as claimed): once the component was unmounted while a timer was
\* registered, no step changes visual or videoReady and none raises the
\* "Video ready!" toast, not even the poll that was in flight.
C20_AbandonedAfterUnmount ==
  [][ (~mounted /\ pollingAtUnmount) =>
        /\ visual' = visual
        /\ videoReady' = videoReady
        /\ Count(toastLog', "Video ready!") = Count(toastLog, "Video ready!") ]_vars

----------------------------------------------------------------------------
(* Polling outcomes and timers of TripVisualization (VizSpec) *)

\* C21 (as claimed): when a poll of the mounted component observes failed,
\* the registered timer is cleared and the visual shown no longer has status
\* pending.
C21_FailedPollLeavesGenerating ==
  [][ (PollSettledStep /\ vizEvent'.status = "failed" /\ mounted) =>
        /\ intervalRef \notin timers'
        /\ visual'.video_status # "pending" ]_vars

\* C25 (as claimed): the "Video ready!" notification is raised only by the
\* poll that makes the video ready, never by a poll that finds videoReady
\* already set.
C25_ReadyAtMostOnce ==
  [][ (mounted /\ Count(toastLog', "Video ready!") > Count(toastLog, "Video ready!"))
        => ~videoReady ]_vars

\* C26: at most one interval timer is registered at any time, and it is the
\* one intervalRef names; a newly registered timer is the only one left.
C26_AtMostOneTimer ==
  /\ [](Cardinality(timers) <= 1 /\ timers \subseteq {intervalRef})
  /\ [][ (timers' \ timers # {}) => timers' = {intervalRef'} ]_vars

\* C26 witness: the second generation's polling has been started after the
\* first one's, and its timer is the only one registered
C26_Witness ==
  /\ vizEvent.kind = "created" /\ vizEvent.status = "pending"
  /\ genSeq = 2 /\ intervalRef = 2
  /\ timers = {2}
  /\ Count(toastLog, "Visualization created!") = 2

----------------------------------------------------------------------------
(* clearSession (SessionSpec) *)

\* C22 (as claimed): clearSession leaves no id stored, and the first request
\* without an explicit id issued after it carries an id generated for that
\* request, not the id that was stored before the clear.
C22_FreshIdAfterClear ==
  /\ [][ (clearedId' # Null /\ clearedId' # clearedId) => sessionId' = Null ]_vars
  /\ [][ \A k \in calls :
           (Issued(k) /\ k.arg = Null /\ clearedId # Null) =>
             /\ After(k).payload.session_id = Gen(k.ctrl, k.id)
             /\ After(k).payload.session_id # clearedId ]_vars

----------------------------------------------------------------------------
(* The busy flag (LiveSpec) *)

\* C23: a controller is busy exactly while an invocation of its send is
\* pending; the step in which the invocation settles, with a reply or with
\* any failure, clears the flag, so that a real message is accepted again;
\* and, every request settling in the end, a busy controller always becomes
\* free again.
C23_BusyFlagCleared ==
  /\ [](\A c \in Controllers :
          /\ isLoading[c] <=> CallsOf(c) # {}
          /\ ~isLoading[c] => CanSend(c, <<"h", "i">>))
  /\ [][ \A k \in calls : (k \notin calls' /\ ~Issued(k)) => ~isLoading'[k.ctrl] ]_vars
  /\ \A c \in OnScreen : isLoading[c] ~> ~isLoading[c]

\* C23 witness: a controller whose first send failed was free again and has
\* started its second send
C23_Witness ==
  \E c \in OnScreen :
    /\ Len(messages[c]) = 4
    /\ messages[c][3].text = ErrorText(c)
    /\ isLoading[c]
    /\ lastSend.kind = "accepted" /\ lastSend.id = 2
    /\ authUser # NoUser

----------------------------------------------------------------------------
(* The controllers' own session ids (Spec) *)

\* C24 (as claimed): a controller's contextId, once set, changes only in the
\* step that handles the response to its own request, and then only to the
\* session id that response carries; a response without one leaves it as it
\* was.
C24_ContextIdFollowsOwnResponse ==
  [][ \A c \in Controllers :
        contextId[c] # Null =>
          contextId'[c] =
            (IF /\ ResolvedStep
                /\ \E k \in calls : k.ctrl = c /\ k.id = lastSend'.id /\ k \notin calls'
                /\ lastSend'.session_id # Null
             THEN lastSend'.session_id
             ELSE contextId[c]) ]_vars

\* a request that had been issued failed in this step
RequestFailedStep ==
  /\ calls' # calls
  /\ lastSend'.kind = "settled"
  /\ lastSend'.outcome \in {"http", "body", "network", "parse"}

C27_DocumentHasSignupName ==
  (/\ signupPc = "done"
   /\ writes = <<>>
   /\ \A who \in Callers : createPc[who] # "caught")
    => (userDoc.exists /\ userDoc.displayName = signupName)

\* C28: when every load has resolved, none rejected, the page shows the user
\* and the transactions, and the layout the user, of the current userId.
C28_LatestUserIdDisplayed ==
  (loads = {} /\ ~loadRejected)
    => /\ pageUser = UserOf(UserIdToUse(userId))
       /\ transactions = TransactionsOf(UserIdToUse(userId))
       /\ layoutUser = UserOf(UserIdToUse(userId))

====
